---- MODULE Spec2Model ----
(***************************************************************************)
(* Letter Match Fun: the round generator (generateRound, src/App.tsx) and  *)
(* the session held by the App component (its six useState cells, its      *)
(* three handlers and the setTimeout callbacks they schedule), together    *)
(* with the per-letter click guard of src/components/Circle.tsx.           *)
(***************************************************************************)
EXTENDS Integers, Sequences, FiniteSets, TLC

\* ------------------------------------------------------------------ bounds

\* Math.random streams a session may draw a round from: seeds 0..MaxSeed.
MaxSeed == 1
\* Math.random streams the generator alone is run on: seeds 0..MaxGenSeed.
MaxGenSeed == 59
\* lettersPerCircle of a configured tier ranges over 2..MaxLettersPerCircle.
MaxLettersPerCircle == 15
\* Math.random streams a configured tier is generated on: seeds 0..MaxCfgSeed.
MaxCfgSeed == 19
\* score is capped here: a matching click is not taken at the cap.
MaxScore == 2
\* wrongGuessesInRound is capped here: a wrong click is not taken at the cap.
MaxWrong == 5
\* at most this many setTimeout callbacks of the App are pending at once.
MaxTimers == 2
\* at most this many Letters are shaking (have their callback pending) at once.
MaxShaking == 1

\* ------------------------------------------------------- types, constants

NULL == "null"

\* roundData === null: the round with no letters and no matching letter.
NoRound == [letters1 |-> << >>, letters2 |-> << >>, matchingLetter |-> NULL]

Difficulty == {"easy", "medium", "hard"}

DIFFICULTY_SETTINGS ==
  [ easy   |-> [lettersPerCircle |-> 4, useLowercase |-> FALSE],
    medium |-> [lettersPerCircle |-> 6, useLowercase |-> FALSE],
    hard   |-> [lettersPerCircle |-> 8, useLowercase |-> TRUE] ]

ALPHABET_UPPER ==
  << "A", "B", "C", "D", "E", "F", "G", "H", "I", "J", "K", "L", "M",
     "N", "O", "P", "Q", "R", "S", "T", "U", "V", "W", "X", "Y", "Z" >>

ALPHABET_LOWER ==
  << "a", "b", "c", "d", "e", "f", "g", "h", "i", "j", "k", "l", "m",
     "n", "o", "p", "q", "r", "s", "t", "u", "v", "w", "x", "y", "z" >>

Range(s) == { s[i] : i \in 1..Len(s) }

Letters == Range(ALPHABET_UPPER) \cup Range(ALPHABET_LOWER)

\* The case mapping of the letters, computed once.
UpperCaseOf ==
  [letter \in Letters |->
     IF \E i \in 1..Len(ALPHABET_LOWER) : ALPHABET_LOWER[i] = letter
       THEN ALPHABET_UPPER[CHOOSE i \in 1..Len(ALPHABET_LOWER) : ALPHABET_LOWER[i] = letter]
       ELSE letter]

LowerCaseOf ==
  [letter \in Letters |->
     IF \E i \in 1..Len(ALPHABET_UPPER) : ALPHABET_UPPER[i] = letter
       THEN ALPHABET_LOWER[CHOOSE i \in 1..Len(ALPHABET_UPPER) : ALPHABET_UPPER[i] = letter]
       ELSE letter]

\* String.prototype.toUpperCase on a one-letter string.
toUpperCase(letter) == IF letter \in Letters THEN UpperCaseOf[letter] ELSE letter

\* String.prototype.toLowerCase on a one-letter string.
toLowerCase(letter) == IF letter \in Letters THEN LowerCaseOf[letter] ELSE letter

\* ------------------------------------------------------------ Math.random

\* Math.random() is modelled as a stream of fractions x / RandomModulus,
\* 0 <= x < RandomModulus, one stream per seed; every call advances it.
RandomModulus == 65537

SeedRandom(seed) == ((seed + 1) * (seed + 7) * 9973 + seed * 30011) % RandomModulus

NextRandom(x) == (x * 75 + 74) % RandomModulus

\* Math.floor(Math.random() * n), for the drawn value x.
RandomIndex(x, n) == (x * n) \div RandomModulus

\* Math.random() > 0.5, for the drawn value x.
RandomAboveHalf(x) == 2 * x > RandomModulus

\* ----------------------------------------------------------- shuffleArray

RECURSIVE ShuffleLoop(_, _, _)
\* The loop of shuffleArray from the 0-based index i down to 1; rng is the
\* last value drawn.  Yields the array and the last value drawn.
ShuffleLoop(array, i, rng) ==
  IF i > 0
    THEN LET x == NextRandom(rng)
             j == RandomIndex(x, i + 1)
             swapped == [array EXCEPT ![i + 1] = array[j + 1], ![j + 1] = array[i + 1]]
         IN  ShuffleLoop(swapped, i - 1, x)
    ELSE [array |-> array, rng |-> rng]

shuffleArray(array, rng) == ShuffleLoop(array, Len(array) - 1, rng)

\* ---------------------------------------------------------- generateRound

RECURSIVE FillerLoop_ByLetter(_, _, _, _)
\* The filler loop deduplicating by the letter itself, not by its concept.
FillerLoop_ByLetter(shuffledFullPool, i, fillerPool, usedConcepts) ==
  IF i > Len(shuffledFullPool)
    THEN fillerPool
    ELSE LET letter == shuffledFullPool[i]
         IN  IF letter \notin usedConcepts
               THEN FillerLoop_ByLetter(shuffledFullPool, i + 1, Append(fillerPool, letter),
                                        usedConcepts \cup {letter})
               ELSE FillerLoop_ByLetter(shuffledFullPool, i + 1, fillerPool, usedConcepts)

RECURSIVE FillerLoop_StopsAtUsed(_, _, _, _)
\* The filler loop leaving at the first letter whose concept is used (break
\* for continue).
FillerLoop_StopsAtUsed(shuffledFullPool, i, fillerPool, usedConcepts) ==
  IF i > Len(shuffledFullPool)
    THEN fillerPool
    ELSE LET letter == shuffledFullPool[i]
             concept == toUpperCase(letter)
         IN  IF concept \notin usedConcepts
               THEN FillerLoop_StopsAtUsed(shuffledFullPool, i + 1,
                                           Append(fillerPool, letter),
                                           usedConcepts \cup {concept})
               ELSE fillerPool

RECURSIVE FillerLoop(_, _, _, _)
\* for (const letter of shuffledFullPool): keeps the letters whose concept
\* is not used yet.  i is the 1-based position of the letter looked at.
FillerLoop(shuffledFullPool, i, fillerPool, usedConcepts) ==
  IF i > Len(shuffledFullPool)
    THEN fillerPool
    ELSE LET letter == shuffledFullPool[i]
             concept == toUpperCase(letter)
         IN  IF concept \notin usedConcepts
               THEN FillerLoop(shuffledFullPool, i + 1, Append(fillerPool, letter),
                               usedConcepts \cup {concept})
               ELSE FillerLoop(shuffledFullPool, i + 1, fillerPool, usedConcepts)

\* Set.prototype.add, the Set kept as the sequence of its insertion order.
SetAdd(set, value) == IF value \in Range(set) THEN set ELSE Append(set, value)

RECURSIVE TakeLoop_OffByOne(_, _, _, _)
\* The take loop with the bound lettersPerCircle for lettersPerCircle - 1.
TakeLoop_OffByOne(set, fillerIndex, fillerPool, lettersPerCircle) ==
  IF Len(set) < lettersPerCircle /\ fillerIndex < Len(fillerPool)
    THEN TakeLoop_OffByOne(SetAdd(set, fillerPool[fillerIndex + 1]), fillerIndex + 1,
                           fillerPool, lettersPerCircle)
    ELSE [set |-> set, fillerIndex |-> fillerIndex]

RECURSIVE TakeLoop(_, _, _, _)
\* while (set.size < lettersPerCircle - 1 && fillerIndex < fillerPool.length)
\*   set.add(fillerPool[fillerIndex++]);   fillerIndex is 0-based.
TakeLoop(set, fillerIndex, fillerPool, lettersPerCircle) ==
  IF Len(set) < lettersPerCircle - 1 /\ fillerIndex < Len(fillerPool)
    THEN TakeLoop(SetAdd(set, fillerPool[fillerIndex + 1]), fillerIndex + 1,
                  fillerPool, lettersPerCircle)
    ELSE [set |-> set, fillerIndex |-> fillerIndex]

\* getMatchingLetterWithCase, for the value x drawn when useLowercase.
getMatchingLetterWithCase(settings, matchingLetterConcept, x) ==
  IF settings.useLowercase
    THEN IF RandomAboveHalf(x) THEN toUpperCase(matchingLetterConcept)
                               ELSE toLowerCase(matchingLetterConcept)
    ELSE matchingLetterConcept

\* generateRound with the second take loop starting again at the head of
\* the filler pool (a fillerIndex of its own).
generateRoundWith_OwnIndex(settings, seed) ==
  LET fullLetterPool == IF settings.useLowercase
                          THEN ALPHABET_UPPER \o ALPHABET_LOWER
                          ELSE ALPHABET_UPPER
      x0 == SeedRandom(seed)
      matchingLetterConcept == ALPHABET_UPPER[RandomIndex(x0, Len(ALPHABET_UPPER)) + 1]
      pool == shuffleArray(fullLetterPool, x0)
      fillerPool == FillerLoop(pool.array, 1, << >>, {matchingLetterConcept})
      take1 == TakeLoop(<< >>, 0, fillerPool, settings.lettersPerCircle)
      take2 == TakeLoop(<< >>, 0, fillerPool, settings.lettersPerCircle)
      x1 == IF settings.useLowercase THEN NextRandom(pool.rng) ELSE pool.rng
      s1 == shuffleArray(Append(take1.set,
               getMatchingLetterWithCase(settings, matchingLetterConcept, x1)), x1)
      x2 == IF settings.useLowercase THEN NextRandom(s1.rng) ELSE s1.rng
      s2 == shuffleArray(Append(take2.set,
               getMatchingLetterWithCase(settings, matchingLetterConcept, x2)), x2)
  IN  [letters1 |-> s1.array, letters2 |-> s2.array,
       matchingLetter |-> matchingLetterConcept]

\* The body of generateRound for given settings, on the Math.random stream
\* of the seed.  The calls of Math.random are made in the code's order: the
\* concept, the shuffle of the pool, then for each circle the case of its
\* matching letter followed by the shuffle of the circle.
generateRoundWith(settings, seed) ==
  LET fullLetterPool == IF settings.useLowercase
                          THEN ALPHABET_UPPER \o ALPHABET_LOWER
                          ELSE ALPHABET_UPPER
      x0 == SeedRandom(seed)
      matchingLetterConcept == ALPHABET_UPPER[RandomIndex(x0, Len(ALPHABET_UPPER)) + 1]
      pool == shuffleArray(fullLetterPool, x0)
      fillerPool == FillerLoop(pool.array, 1, << >>, {matchingLetterConcept})
      take1 == TakeLoop(<< >>, 0, fillerPool, settings.lettersPerCircle)
      take2 == TakeLoop(<< >>, take1.fillerIndex, fillerPool, settings.lettersPerCircle)
      x1 == IF settings.useLowercase THEN NextRandom(pool.rng) ELSE pool.rng
      s1 == shuffleArray(Append(take1.set,
               getMatchingLetterWithCase(settings, matchingLetterConcept, x1)), x1)
      x2 == IF settings.useLowercase THEN NextRandom(s1.rng) ELSE s1.rng
      s2 == shuffleArray(Append(take2.set,
               getMatchingLetterWithCase(settings, matchingLetterConcept, x2)), x2)
  IN  [letters1 |-> s1.array, letters2 |-> s2.array,
       matchingLetter |-> matchingLetterConcept]

generateRound(level, seed) == generateRoundWith(DIFFICULTY_SETTINGS[level], seed)

Seeds == 0..MaxSeed

GenSeeds == 0..MaxGenSeed

\* The rounds a session draws from, computed once.
SessionRounds ==
  [d \in Difficulty |-> [seed \in Seeds |-> generateRound(d, seed)]]

\* The rounds the generator is run for, computed once.
GeneratedRounds ==
  [d \in Difficulty |-> [seed \in GenSeeds |-> generateRound(d, seed)]]

\* ---------------------------------------------------------------- session

VARIABLES
  difficulty,           \* useState<Difficulty | null>(null)
  roundData,            \* useState<RoundData | null>(null)
  score,                \* useState(0)
  feedback,             \* useState<'idle' | 'correct'>('idle')
  wrongGuess,           \* useState(false): the wrong pulse
  wrongGuessesInRound,  \* useState(0)
  timers,               \* the pending setTimeout callbacks, in scheduling order
  isShaking,            \* the mounted Letters whose isShaking is true: <<circle, letter>>
  returned,             \* what the last call of handleLetterClick returned
  op,                   \* history: the handler or callback that ran last
  afterMenu             \* history: handleBackToMenu has run

vars == << difficulty, roundData, score, feedback, wrongGuess,
           wrongGuessesInRound, timers, isShaking, returned, op, afterMenu >>

\* The handler or callback that ran last: its name, the level it was called
\* with (or its closure captured), for a callback whether a reset ran after
\* it was scheduled, and for a click whether the uppercase form of the
\* clicked letter was the matching letter of the round shown.
Op(name, level, superseded, matched) ==
  [name |-> name, level |-> level, superseded |-> superseded, matched |-> matched]

\* The clicked letter has the target concept of the round shown.
HasTargetConcept(clickedLetter) == toUpperCase(clickedLetter) = roundData.matchingLetter

\* The fields the session of the specification consists of.
session == << difficulty, roundData, score, feedback, wrongGuessesInRound >>

LoadDelay == 100

NextRoundDelay == 1200

WrongPulseDelay == 500

ShakeDelay == 500

\* A pending callback.  `difficulty` is the value its closure captured (the
\* level of a load callback, the difficulty startNewRound was created with
\* for a next-round callback).  `superseded` is not program state: it
\* records that handleSelectDifficulty or handleBackToMenu ran after the
\* callback was scheduled.
Timer(kind, delay, d, circle, letter) ==
  [kind |-> kind, delay |-> delay, difficulty |-> d, circle |-> circle,
   letter |-> letter, superseded |-> FALSE]

\* setTimeout(() => setRoundData(generateRound(level)), 100)
LoadTimer(level) == Timer("load", LoadDelay, level, 0, NULL)

\* setTimeout(() => startNewRound(), 1200), startNewRound closed over d
NextRoundTimer(d) == Timer("next", NextRoundDelay, d, 0, NULL)

\* setTimeout(() => setWrongGuess(false), 500)
WrongPulseTimer == Timer("wrong", WrongPulseDelay, NULL, 0, NULL)

\* setTimeout(() => setIsShaking(false), 500) of the Letter in the circle
ShakeTimer(circle, letter) == Timer("shake", ShakeDelay, NULL, circle, letter)

Supersede(ts) == [i \in 1..Len(ts) |-> [ts[i] EXCEPT !.superseded = TRUE]]

RemoveAt(ts, i) == SubSeq(ts, 1, i - 1) \o SubSeq(ts, i + 1, Len(ts))

\* Timers fire in the order of their deadlines: a callback scheduled earlier
\* with a delay that is not longer fires first.
CanFire(i) == \A j \in 1..(i - 1) : timers[j].delay > timers[i].delay

LettersOf(r, circle) == IF circle = 1 THEN r.letters1 ELSE r.letters2

\* The two Circles are rendered only on the game screen with a round.
Mounted(d, r) == d # NULL /\ r # NoRound

\* A Letter keeps its instance across a render when the Circles stay
\* rendered, the key of their container (the score) is the same and the
\* letter (its own key) is still in its circle.
StaysMounted(t, d2, r2, s2) ==
  /\ Mounted(difficulty, roundData)
  /\ Mounted(d2, r2)
  /\ s2 = score
  /\ t.letter \in Range(LettersOf(r2, t.circle))

\* The pending callbacks after a render to difficulty d2, round r2 and score
\* s2: the setIsShaking(false) of an unmounted Letter has no effect, and is
\* dropped.
Render(ts, d2, r2, s2) ==
  SelectSeq(ts, LAMBDA t : t.kind # "shake" \/ StaysMounted(t, d2, r2, s2))

\* The pending callbacks of the App component.
SessionTimers(ts) == SelectSeq(ts, LAMBDA t : t.kind # "shake")

ShakingOf(ts) == { << ts[i].circle, ts[i].letter >> : i \in { k \in 1..Len(ts) : ts[k].kind = "shake" } }

TypeOK ==
  /\ difficulty \in Difficulty \cup {NULL}
  /\ score \in 0..MaxScore
  /\ feedback \in {"idle", "correct"}
  /\ wrongGuess \in BOOLEAN
  /\ wrongGuessesInRound \in 0..MaxWrong
  /\ Len(SessionTimers(timers)) <= MaxTimers
  /\ Cardinality(isShaking) <= MaxShaking
  /\ returned \in BOOLEAN

Init ==
  /\ difficulty = NULL
  /\ roundData = NoRound
  /\ score = 0
  /\ feedback = "idle"
  /\ wrongGuess = FALSE
  /\ wrongGuessesInRound = 0
  /\ timers = << >>
  /\ isShaking = {}
  /\ returned = FALSE
  /\ op = Op("init", NULL, FALSE, FALSE)
  /\ afterMenu = FALSE

\* ---------------------------------------------------------------- handlers

\* handleSelectDifficulty without setFeedback('idle'), as handleBackToMenu.
handleSelectDifficulty_KeepsFeedback(level) ==
  /\ Len(timers) < MaxTimers
  /\ difficulty' = level
  /\ score' = 0
  /\ wrongGuessesInRound' = 0
  /\ roundData' = NoRound
  /\ timers' = Append(Render(Supersede(timers), level, NoRound, 0), LoadTimer(level))
  /\ isShaking' = ShakingOf(timers')
  /\ op' = Op("handleSelectDifficulty", level, FALSE, FALSE)
  /\ UNCHANGED << feedback, wrongGuess, returned, afterMenu >>

\* handleSelectDifficulty(level)
handleSelectDifficulty(level) ==
  /\ Len(timers) < MaxTimers
  /\ difficulty' = level
  /\ score' = 0
  /\ feedback' = "idle"
  /\ wrongGuessesInRound' = 0
  /\ roundData' = NoRound
  /\ timers' = Append(Render(Supersede(timers), level, NoRound, 0), LoadTimer(level))
  /\ isShaking' = ShakingOf(timers')
  /\ op' = Op("handleSelectDifficulty", level, FALSE, FALSE)
  /\ UNCHANGED << wrongGuess, returned, afterMenu >>

\* handleBackToMenu()
handleBackToMenu ==
  /\ difficulty' = NULL
  /\ roundData' = NoRound
  /\ score' = 0
  /\ wrongGuessesInRound' = 0
  /\ timers' = Render(Supersede(timers), NULL, NoRound, 0)
  /\ isShaking' = ShakingOf(timers')
  /\ op' = Op("handleBackToMenu", NULL, FALSE, FALSE)
  /\ afterMenu' = TRUE
  /\ UNCHANGED << feedback, wrongGuess, returned >>

\* handleLetterClick comparing the clicked letter itself with the matching
\* letter, without toUpperCase.
handleLetterClick_CaseSensitive(clickedLetter) ==
  LET same == [returned |-> FALSE, score |-> score, feedback |-> feedback,
               wrongGuess |-> wrongGuess,
               wrongGuessesInRound |-> wrongGuessesInRound, scheduled |-> << >>]
  IN  IF feedback # "idle" \/ roundData = NoRound
        THEN same
        ELSE IF clickedLetter = roundData.matchingLetter
          THEN [same EXCEPT !.returned = TRUE, !.score = score + 1,
                            !.feedback = "correct",
                            !.scheduled = << NextRoundTimer(difficulty) >>]
          ELSE [same EXCEPT !.wrongGuess = TRUE,
                            !.wrongGuessesInRound = wrongGuessesInRound + 1,
                            !.scheduled = << WrongPulseTimer >>]

\* handleLetterClick without the feedback lock: if (!roundData) return false.
handleLetterClick_NoFeedbackLock(clickedLetter) ==
  LET same == [returned |-> FALSE, score |-> score, feedback |-> feedback,
               wrongGuess |-> wrongGuess,
               wrongGuessesInRound |-> wrongGuessesInRound, scheduled |-> << >>]
  IN  IF roundData = NoRound
        THEN same
        ELSE IF toUpperCase(clickedLetter) = toUpperCase(roundData.matchingLetter)
          THEN [same EXCEPT !.returned = TRUE, !.score = score + 1,
                            !.feedback = "correct",
                            !.scheduled = << NextRoundTimer(difficulty) >>]
          ELSE [same EXCEPT !.wrongGuess = TRUE,
                            !.wrongGuessesInRound = wrongGuessesInRound + 1,
                            !.scheduled = << WrongPulseTimer >>]

\* handleLetterClick with && for || in its guard:
\* if (feedback !== 'idle' && !roundData) return false.
handleLetterClick_GuardAnd(clickedLetter) ==
  LET same == [returned |-> FALSE, score |-> score, feedback |-> feedback,
               wrongGuess |-> wrongGuess,
               wrongGuessesInRound |-> wrongGuessesInRound, scheduled |-> << >>]
  IN  IF feedback # "idle" /\ roundData = NoRound
        THEN same
        ELSE IF toUpperCase(clickedLetter) = toUpperCase(roundData.matchingLetter)
          THEN [same EXCEPT !.returned = TRUE, !.score = score + 1,
                            !.feedback = "correct",
                            !.scheduled = << NextRoundTimer(difficulty) >>]
          ELSE [same EXCEPT !.wrongGuess = TRUE,
                            !.wrongGuessesInRound = wrongGuessesInRound + 1,
                            !.scheduled = << WrongPulseTimer >>]

\* handleLetterClick raising the wrong pulse without scheduling its clearing.
handleLetterClick_NoPulseTimer(clickedLetter) ==
  LET same == [returned |-> FALSE, score |-> score, feedback |-> feedback,
               wrongGuess |-> wrongGuess,
               wrongGuessesInRound |-> wrongGuessesInRound, scheduled |-> << >>]
  IN  IF feedback # "idle" \/ roundData = NoRound
        THEN same
        ELSE IF toUpperCase(clickedLetter) = toUpperCase(roundData.matchingLetter)
          THEN [same EXCEPT !.returned = TRUE, !.score = score + 1,
                            !.feedback = "correct",
                            !.scheduled = << NextRoundTimer(difficulty) >>]
          ELSE [same EXCEPT !.wrongGuess = TRUE,
                            !.wrongGuessesInRound = wrongGuessesInRound + 1]

\* handleLetterClick(clickedLetter): what it returns, the state it sets and
\* the callbacks it schedules.
handleLetterClick(clickedLetter) ==
  LET same == [returned |-> FALSE, score |-> score, feedback |-> feedback,
               wrongGuess |-> wrongGuess,
               wrongGuessesInRound |-> wrongGuessesInRound, scheduled |-> << >>]
  IN  IF feedback # "idle" \/ roundData = NoRound
        THEN same
        ELSE IF toUpperCase(clickedLetter) = toUpperCase(roundData.matchingLetter)
          THEN [same EXCEPT !.returned = TRUE, !.score = score + 1,
                            !.feedback = "correct",
                            !.scheduled = << NextRoundTimer(difficulty) >>]
          ELSE [same EXCEPT !.wrongGuess = TRUE,
                            !.wrongGuessesInRound = wrongGuessesInRound + 1,
                            !.scheduled = << WrongPulseTimer >>]

\* The counters, the number of pending callbacks of the App and the number of
\* shaking Letters stay within the bounds.
WithinBounds(o, extra) ==
  /\ o.score <= MaxScore
  /\ o.wrongGuessesInRound <= MaxWrong
  /\ Len(SessionTimers(timers)) + Len(o.scheduled) <= MaxTimers
  /\ Cardinality(isShaking) + extra <= MaxShaking

\* A call of handleLetterClick(clickedLetter).
CallLetterClick(clickedLetter) ==
  LET o == handleLetterClick(clickedLetter)
  IN  /\ WithinBounds(o, 0)
      /\ returned' = o.returned
      /\ score' = o.score
      /\ feedback' = o.feedback
      /\ wrongGuess' = o.wrongGuess
      /\ wrongGuessesInRound' = o.wrongGuessesInRound
      /\ timers' = Render(timers, difficulty, roundData, o.score) \o o.scheduled
      /\ isShaking' = ShakingOf(timers')
      /\ op' = Op("handleLetterClick", NULL, FALSE, HasTargetConcept(clickedLetter))
      /\ UNCHANGED << difficulty, roundData, afterMenu >>

\* Letter.handleClick of the Letter at position i of a circle.
LetterHandleClick(circle, i) ==
  /\ Mounted(difficulty, roundData)
  /\ i \in 1..Len(LettersOf(roundData, circle))
  /\ LET letter == LettersOf(roundData, circle)[i]
         o == handleLetterClick(letter)
         shake == IF o.returned THEN << >> ELSE << ShakeTimer(circle, letter) >>
     IN  /\ << circle, letter >> \notin isShaking
         /\ WithinBounds(o, Len(shake))
         /\ returned' = o.returned
         /\ score' = o.score
         /\ feedback' = o.feedback
         /\ wrongGuess' = o.wrongGuess
         /\ wrongGuessesInRound' = o.wrongGuessesInRound
         /\ timers' = Render(timers, difficulty, roundData, o.score) \o o.scheduled \o shake
         /\ isShaking' = ShakingOf(timers')
         /\ op' = Op("handleLetterClick", NULL, FALSE, HasTargetConcept(letter))
         /\ UNCHANGED << difficulty, roundData, afterMenu >>

\* ---------------------------------------------------------------- callbacks

\* () => setRoundData(generateRound(level)), on the stream of a seed
FireLoad(i, seed) ==
  /\ i \in 1..Len(timers) /\ CanFire(i)
  /\ timers[i].kind = "load"
  /\ roundData' = SessionRounds[timers[i].difficulty][seed]
  /\ timers' = Render(RemoveAt(timers, i), difficulty, roundData', score)
  /\ isShaking' = ShakingOf(timers')
  /\ op' = Op("load", timers[i].difficulty, timers[i].superseded, FALSE)
  /\ UNCHANGED << difficulty, score, feedback, wrongGuess, wrongGuessesInRound,
                  returned, afterMenu >>

\* startNewRound resetting the score too, as handleSelectDifficulty does.
FireNextRound_ResetsScore(i) ==
  /\ i \in 1..Len(timers) /\ CanFire(i)
  /\ timers[i].kind = "next"
  /\ IF timers[i].difficulty = NULL
       THEN /\ timers' = RemoveAt(timers, i)
            /\ UNCHANGED << roundData, score, feedback, wrongGuessesInRound, isShaking >>
       ELSE /\ score' = 0
            /\ feedback' = "idle"
            /\ wrongGuessesInRound' = 0
            /\ roundData' = NoRound
            /\ timers' = Append(Render(RemoveAt(timers, i), difficulty, NoRound, 0),
                                LoadTimer(timers[i].difficulty))
            /\ isShaking' = ShakingOf(timers')
  /\ op' = Op("startNewRound", timers[i].difficulty, timers[i].superseded, FALSE)
  /\ UNCHANGED << difficulty, wrongGuess, returned, afterMenu >>

\* () => startNewRound(), startNewRound closed over timers[i].difficulty
FireNextRound(i) ==
  /\ i \in 1..Len(timers) /\ CanFire(i)
  /\ timers[i].kind = "next"
  /\ IF timers[i].difficulty = NULL
       THEN /\ timers' = RemoveAt(timers, i)
            /\ UNCHANGED << roundData, feedback, wrongGuessesInRound, isShaking >>
       ELSE /\ feedback' = "idle"
            /\ wrongGuessesInRound' = 0
            /\ roundData' = NoRound
            /\ timers' = Append(Render(RemoveAt(timers, i), difficulty, NoRound, score),
                                LoadTimer(timers[i].difficulty))
            /\ isShaking' = ShakingOf(timers')
  /\ op' = Op("startNewRound", timers[i].difficulty, timers[i].superseded, FALSE)
  /\ UNCHANGED << difficulty, score, wrongGuess, returned, afterMenu >>

\* () => setWrongGuess(false)
FireWrongPulse(i) ==
  /\ i \in 1..Len(timers) /\ CanFire(i)
  /\ timers[i].kind = "wrong"
  /\ wrongGuess' = FALSE
  /\ timers' = RemoveAt(timers, i)
  /\ op' = Op("wrongPulse", NULL, timers[i].superseded, FALSE)
  /\ UNCHANGED << difficulty, roundData, score, feedback, wrongGuessesInRound,
                  isShaking, returned, afterMenu >>

\* () => setIsShaking(false)
FireShake(i) ==
  /\ i \in 1..Len(timers) /\ CanFire(i)
  /\ timers[i].kind = "shake"
  /\ timers' = RemoveAt(timers, i)
  /\ isShaking' = ShakingOf(timers')
  /\ op' = Op("shake", NULL, timers[i].superseded, FALSE)
  /\ UNCHANGED << difficulty, roundData, score, feedback, wrongGuess,
                  wrongGuessesInRound, returned, afterMenu >>

TimerSlots == 1..(MaxTimers + MaxShaking)

\* ----------------------------------------------------------- user's actions

\* A difficulty button of the menu screen, rendered while difficulty is null.
ClickDifficulty(level) ==
  /\ difficulty = NULL
  /\ handleSelectDifficulty(level)

\* The Menu button of the game screen, rendered while difficulty is set.
ClickMenu ==
  /\ difficulty # NULL
  /\ handleBackToMenu

Callbacks ==
  \/ \E i \in TimerSlots, seed \in Seeds : FireLoad(i, seed)
  \/ \E i \in TimerSlots : FireNextRound(i)
  \/ \E i \in TimerSlots : FireWrongPulse(i)
  \/ \E i \in TimerSlots : FireShake(i)

\* The program as the player drives it through the rendered screen.
Next ==
  \/ \E level \in Difficulty : ClickDifficulty(level)
  \/ ClickMenu
  \/ \E circle \in {1, 2}, i \in 1..8 : LetterHandleClick(circle, i)
  \/ Callbacks

Spec == Init /\ [][Next]_vars

\* The program as the player drives it, on an event loop that runs every
\* pending callback once its delay has passed.  The player is never obliged
\* to act.
SpecFair ==
  /\ Init /\ [][Next]_vars
  /\ WF_vars(\E i \in TimerSlots, seed \in Seeds : FireLoad(i, seed))
  /\ WF_vars(\E i \in TimerSlots : FireNextRound(i))
  /\ WF_vars(\E i \in TimerSlots : FireWrongPulse(i))
  /\ WF_vars(\E i \in TimerSlots : FireShake(i))

\* The session controller with its three operations called in any state and
\* with any letter, as its contract allows.
NextApi ==
  \/ \E level \in Difficulty : handleSelectDifficulty(level)
  \/ handleBackToMenu
  \/ \E letter \in Letters : CallLetterClick(letter)
  \/ \E i \in TimerSlots, seed \in Seeds : FireLoad(i, seed)
  \/ \E i \in TimerSlots : FireNextRound(i)
  \/ \E i \in TimerSlots : FireWrongPulse(i)

SpecApi == Init /\ [][NextApi]_vars

\* The event loop runs every pending callback once its delay has passed: no
\* callback that can fire waits forever.
TimersFire ==
  /\ WF_vars(\E i \in TimerSlots, seed \in Seeds : FireLoad(i, seed))
  /\ WF_vars(\E i \in TimerSlots : FireNextRound(i))
  /\ WF_vars(\E i \in TimerSlots : FireWrongPulse(i))

\* The session controller on an event loop that runs its callbacks.
SpecApiFair == Init /\ [][NextApi]_vars /\ TimersFire

\* generateRound alone: a call for a tier on the stream of a seed.
Generate(level, seed) ==
  /\ difficulty' = level
  /\ roundData' = GeneratedRounds[level][seed]
  /\ op' = Op("generateRound", level, FALSE, FALSE)
  /\ UNCHANGED << score, feedback, wrongGuess, wrongGuessesInRound, timers,
                  isShaking, returned, afterMenu >>

NextGen == \E level \in Difficulty, seed \in GenSeeds : Generate(level, seed)

SpecGen == Init /\ [][NextGen]_vars

\* The settings of an uppercase-only tier of n letters per circle.
UppercaseTier(n) == [lettersPerCircle |-> n, useLowercase |-> FALSE]

ConfiguredSizes == 2..MaxLettersPerCircle

CfgSeeds == 0..MaxCfgSeed

\* The rounds of the configured tiers, computed once.
ConfiguredRounds ==
  [n \in ConfiguredSizes |->
     [seed \in CfgSeeds |-> generateRoundWith(UppercaseTier(n), seed)]]

\* generateRound for a tier configured with n letters per circle, on the
\* stream of a seed.
GenerateConfigured(n, seed) ==
  /\ roundData' = ConfiguredRounds[n][seed]
  /\ op' = Op("generateRound", n, FALSE, FALSE)
  /\ UNCHANGED << difficulty, score, feedback, wrongGuess, wrongGuessesInRound,
                  timers, isShaking, returned, afterMenu >>

NextCfg == \E n \in ConfiguredSizes, seed \in CfgSeeds : GenerateConfigured(n, seed)

SpecCfg == Init /\ [][NextCfg]_vars

\* ------------------------------------------------------------------ claims

\* The callbacks of the session's three timers.
TimerCallbacks == {"load", "startNewRound", "wrongPulse"}

lettersPerCircle(d) == DIFFICULTY_SETTINGS[d].lettersPerCircle

Concepts(letters) == { toUpperCase(letters[i]) : i \in 1..Len(letters) }

Matches(letters, concept) == { i \in 1..Len(letters) : toUpperCase(letters[i]) = concept }

RoundActive == roundData # NoRound /\ feedback = "idle"

\* C1: a timer callback that was scheduled before a handleSelectDifficulty or
\* handleBackToMenu changes none of difficulty, round, score, feedbackState
\* and wrongGuessesInCurrentRound when it fires.
C1_SupersededTimerChangesNothing ==
  [][(op'.name \in TimerCallbacks /\ op'.superseded) => UNCHANGED session]_vars

\* C2: in RoundActive a click on a letter whose uppercase form is the target
\* concept returns true and raises score by exactly 1; a click on any other
\* letter returns false and leaves score unchanged.
C2_ClickResolvesAgainstTarget ==
  [][(RoundActive /\ op'.name = "handleLetterClick") =>
        IF op'.matched
          THEN returned' = TRUE /\ score' = score + 1
          ELSE returned' = FALSE /\ score' = score]_vars

\* A matching click has just been resolved in a second round.
C2_Witness ==
  /\ op.name = "handleLetterClick"
  /\ op.matched
  /\ returned = TRUE
  /\ feedback = "correct"
  /\ score = 2

\* C3: once a matching click is resolved (feedbackState = correct) every
\* further click, the matching letter included, returns false and leaves
\* score unchanged, and the lock is only lifted together with the round
\* being cleared, so that the resolved round is never clickable again:
\* score rises by at most 1 per round.
C3_NoSecondScoreInRound ==
  [][/\ (feedback = "correct" /\ op'.name = "handleLetterClick") =>
           (returned' = FALSE /\ score' = score)
     /\ (feedback = "correct" /\ feedback' # "correct") => roundData' = NoRound
     /\ score' > score => (RoundActive /\ feedback' = "correct" /\ score' = score + 1)]_vars

\* The matching letter was clicked again while the correct feedback of the
\* resolved round was shown.
C3_Witness ==
  /\ op.name = "handleLetterClick"
  /\ op.matched
  /\ feedback = "correct"
  /\ returned = FALSE
  /\ score >= 1

\* C4: a click outside RoundActive (feedbackState = correct, or no round)
\* returns false, changes no session field and schedules no timer.
C4_ClickOutsideRoundActiveIsNoOp ==
  [][(~RoundActive /\ op'.name = "handleLetterClick") =>
        /\ returned' = FALSE
        /\ UNCHANGED session
        /\ timers' = timers]_vars

\* A click was made while no round is loaded.
C4_Witness ==
  /\ op.name = "handleLetterClick"
  /\ roundData = NoRound
  /\ difficulty # NULL
  /\ returned = FALSE

\* C5: returnToMenu sets score to 0 and difficulty to null, and after a
\* subsequent selectDifficulty(t) the round shown while difficulty = t has
\* circles of exactly lettersPerCircle(t) letters, whatever was pending.
C5_RoundShownIsOfSelectedTier ==
  /\ op.name = "handleBackToMenu" => (score = 0 /\ difficulty = NULL)
  /\ (afterMenu /\ difficulty # NULL /\ roundData # NoRound) =>
        /\ Len(roundData.letters1) = lettersPerCircle(difficulty)
        /\ Len(roundData.letters2) = lettersPerCircle(difficulty)

IsLower(letter) == letter \in Range(ALPHABET_LOWER)

\* C6: generateRound returns two circles of exactly lettersPerCircle letters,
\* each with exactly one letter whose uppercase form is the target concept.
C6_CircleLengthAndOneTarget ==
  op.name = "generateRound" =>
    /\ Len(roundData.letters1) = lettersPerCircle(op.level)
    /\ Len(roundData.letters2) = lettersPerCircle(op.level)
    /\ Cardinality(Matches(roundData.letters1, roundData.matchingLetter)) = 1
    /\ Cardinality(Matches(roundData.letters2, roundData.matchingLetter)) = 1

\* A hard round whose two circles show the target in different cases.
C6_Witness ==
  /\ op.name = "generateRound"
  /\ op.level = "hard"
  /\ toLowerCase(roundData.matchingLetter) \in Range(roundData.letters1)
  /\ roundData.matchingLetter \in Range(roundData.letters2)

\* C7: no two letters of one circle returned by generateRound share a
\* concept; a hard circle never holds both cases of one letter.
C7_NoSharedConceptInCircle ==
  op.name = "generateRound" =>
    /\ Cardinality(Concepts(roundData.letters1)) = Len(roundData.letters1)
    /\ Cardinality(Concepts(roundData.letters2)) = Len(roundData.letters2)

\* A hard round with lowercase and uppercase fillers in each circle.
C7_Witness ==
  /\ op.name = "generateRound"
  /\ op.level = "hard"
  /\ \A circle \in {1, 2} :
       LET fillers == { l \in Range(LettersOf(roundData, circle)) :
                          toUpperCase(l) # roundData.matchingLetter }
       IN  (\E l \in fillers : IsLower(l)) /\ (\E l \in fillers : ~IsLower(l))

\* C8: selectDifficulty(tier), from the menu or from any in-round state,
\* sets difficulty to tier, score to 0, wrongGuessesInCurrentRound to 0,
\* feedbackState to idle and round to null.
C8_SelectDifficultyResets ==
  op.name = "handleSelectDifficulty" =>
    /\ difficulty = op.level
    /\ score = 0
    /\ wrongGuessesInRound = 0
    /\ feedback = "idle"
    /\ roundData = NoRound

\* selectDifficulty was called in RoundResolvedCorrect, without a return to
\* the menu: the next-round callback of the resolved round is still pending.
C8_Witness ==
  /\ op.name = "handleSelectDifficulty"
  /\ ~afterMenu
  /\ \E i \in 1..Len(timers) : timers[i].kind = "next" /\ timers[i].superseded

\* C9: returnToMenu sets difficulty and round to null and score and
\* wrongGuessesInCurrentRound to 0, and the session stays in MenuSelection
\* (difficulty = null, round = null) until the next selectDifficulty.
C9_MenuUntilSelectDifficulty ==
  [][/\ op'.name = "handleBackToMenu" =>
          (difficulty' = NULL /\ roundData' = NoRound /\ score' = 0
             /\ wrongGuessesInRound' = 0)
     /\ (afterMenu /\ difficulty = NULL /\ roundData = NoRound
           /\ op'.name # "handleSelectDifficulty") =>
          (difficulty' = NULL /\ roundData' = NoRound)]_vars

\* C10: score is a non-negative integer; only selectDifficulty and
\* returnToMenu lower it, to 0; startNewRound and the timer callbacks leave
\* it unchanged; only a matching click raises it, by exactly 1.
C10_ScoreSteps ==
  [][/\ score' \in Nat
     /\ score' < score =>
          (op'.name \in {"handleSelectDifficulty", "handleBackToMenu"} /\ score' = 0)
     /\ op'.name \in TimerCallbacks \cup {"shake"} => score' = score
     /\ score' > score =>
          (op'.name = "handleLetterClick" /\ op'.matched /\ score' = score + 1)]_vars

\* startNewRound ran from its timer after the second match of a session.
C10_Witness ==
  /\ op.name = "startNewRound"
  /\ score = 2
  /\ roundData = NoRound

\* Math.max(a, b)
max(a, b) == IF a >= b THEN a ELSE b

\* The stars without the floor of 1: 5 - wrongGuessesInRound.
starsToShow_NoFloor == 5 - wrongGuessesInRound

\* const starsToShow = Math.max(1, 5 - wrongGuessesInRound), rendered while
\* feedback is 'correct'
starsToShow == max(1, 5 - wrongGuessesInRound)

\* C11: the stars shown on a correct match are 5 for 0 wrong guesses in the
\* round, one fewer for each wrong guess (2 for 3), and 1 for 4 or more; in
\* every state with feedbackState = correct they lie between 1 and 5.
C11_StarsBetweenOneAndFive ==
  feedback = "correct" =>
    /\ starsToShow \in 1..5
    /\ wrongGuessesInRound = 0 => starsToShow = 5
    /\ wrongGuessesInRound \in 1..3 => starsToShow = 5 - wrongGuessesInRound
    /\ wrongGuessesInRound >= 4 => starsToShow = 1

\* A match after five wrong guesses in the round: the floor of 1 applies.
C11_Witness ==
  /\ op.name = "handleLetterClick"
  /\ op.matched
  /\ feedback = "correct"
  /\ wrongGuessesInRound = 5
  /\ starsToShow = 1

\* C12: wrongGuessesInCurrentRound counts only wrong guesses against the
\* round shown: whenever round changes to a newly generated round, from null
\* or from another round, wrongGuessesInCurrentRound is 0.
C12_NewRoundStartsWithNoWrongGuess ==
  [][(roundData' # roundData /\ roundData' # NoRound) =>
        wrongGuessesInRound' = 0]_vars

\* The states of the session's lifecycle.
MenuSelection == difficulty = NULL

RoundLoading == difficulty # NULL /\ roundData = NoRound

RoundResolvedCorrect == roundData # NoRound /\ feedback = "correct"

\* selectDifficulty and returnToMenu
Resets == {"handleSelectDifficulty", "handleBackToMenu"}

\* C13: RoundActive is left only by a matching click, to
\* RoundResolvedCorrect, or by a reset; RoundResolvedCorrect is left only to
\* RoundLoading or to MenuSelection; the round of RoundActive is replaced or
\* cleared by nothing but a reset.
C13_OnlySpecifiedTransitions ==
  [][/\ (RoundActive /\ ~RoundActive') =>
          \/ op'.name = "handleLetterClick" /\ op'.matched /\ RoundResolvedCorrect'
          \/ op'.name \in Resets
     /\ (RoundResolvedCorrect /\ ~RoundResolvedCorrect') =>
          (RoundLoading' \/ MenuSelection')
     /\ (RoundActive /\ roundData' # roundData) => op'.name \in Resets]_vars

\* The pending callbacks of a kind.
Pending(kind) == { i \in 1..Len(timers) : timers[i].kind = kind }

\* C14: in every state at most one loading->active callback, at most one
\* correct->next-round callback and at most one wrong-pulse-clear callback
\* is pending.
C14_AtMostOnePendingPerPhase ==
  \A kind \in {"load", "next", "wrong"} : Cardinality(Pending(kind)) <= 1

RoundRequested ==
  \/ op.name = "handleSelectDifficulty"
  \/ op.name = "handleLetterClick" /\ returned

\* RoundActive with a round of the current tier and no wrong guess counted.
FreshRoundActive ==
  /\ difficulty # NULL
  /\ RoundActive
  /\ wrongGuessesInRound = 0
  /\ Len(roundData.letters1) = lettersPerCircle(difficulty)
  /\ Len(roundData.letters2) = lettersPerCircle(difficulty)

\* C16: after selectDifficulty and after every matching click the session
\* reaches RoundActive with a freshly generated round of the current tier,
\* feedbackState idle and wrongGuessesInCurrentRound 0, unless a reset
\* follows (on the screen every reset of a running game starts with
\* returnToMenu).
C16_RoundRequestedLeadsToFreshRound ==
  RoundRequested ~> (FreshRoundActive \/ op.name = "handleBackToMenu")

\* C17: the fillers of the two circles are taken one after the other from
\* one deduplicated pool: the only concept the circles of a generated round
\* have in common is the target concept.
C17_OnlyTargetInBothCircles ==
  op.name = "generateRound" =>
    Concepts(roundData.letters1) \cap Concepts(roundData.letters2)
      = {roundData.matchingLetter}

\* A hard round of 14 filler concepts, of which one circle shows a lowercase
\* filler and the other an uppercase one.
C17_Witness ==
  /\ op.name = "generateRound"
  /\ op.level = "hard"
  /\ Cardinality(Concepts(roundData.letters1) \cup Concepts(roundData.letters2))
       = 2 * lettersPerCircle("hard") - 1
  /\ \E l1 \in Range(roundData.letters1), l2 \in Range(roundData.letters2) :
       /\ toUpperCase(l1) # roundData.matchingLetter
       /\ toUpperCase(l2) # roundData.matchingLetter
       /\ IsLower(l1) # IsLower(l2)

\* C18 as stated: generateRound yields a circle shorter than lettersPerCircle
\* only if lettersPerCircle is larger than 14; for every lettersPerCircle
\* from 2 to 14, with the uppercase-only pool, both circles have exactly
\* lettersPerCircle letters.
C18_FullCirclesUpTo14 ==
  op.name = "generateRound" =>
    /\ op.level \in 2..14 =>
         /\ Len(roundData.letters1) = op.level
         /\ Len(roundData.letters2) = op.level
    /\ (Len(roundData.letters1) < op.level \/ Len(roundData.letters2) < op.level) =>
         op.level > 14

\* C18, amended: the 26 uppercase letters leave 25 filler concepts, which
\* fill two circles of up to 13 letters: a circle is shorter than
\* lettersPerCircle only if lettersPerCircle is larger than 13, and for
\* every lettersPerCircle from 2 to 13 both circles have exactly
\* lettersPerCircle letters.
C18_FullCirclesUpTo13 ==
  op.name = "generateRound" =>
    /\ op.level \in 2..13 =>
         /\ Len(roundData.letters1) = op.level
         /\ Len(roundData.letters2) = op.level
    /\ (Len(roundData.letters1) < op.level \/ Len(roundData.letters2) < op.level) =>
         op.level > 13

\* Two full circles of 13 letters: 24 of the 25 filler concepts are shown.
C18_Witness ==
  /\ op.name = "generateRound"
  /\ op.level = 13
  /\ Len(roundData.letters1) = 13
  /\ Len(roundData.letters2) = 13
  /\ Cardinality(Concepts(roundData.letters1) \cup Concepts(roundData.letters2)) = 25

\* C19: every reachable state is MenuSelection (difficulty null, round null,
\* feedbackState idle), RoundLoading (difficulty set, round null, idle),
\* RoundActive (difficulty set, round present, idle) or RoundResolvedCorrect
\* (difficulty set, round present, correct); in particular no round is
\* present while difficulty is null, and feedbackState is not correct while
\* difficulty or round is null.
C19_OneOfFourNamedStates ==
  /\ \/ difficulty = NULL /\ roundData = NoRound /\ feedback = "idle"
     \/ difficulty # NULL /\ roundData = NoRound /\ feedback = "idle"
     \/ difficulty # NULL /\ roundData # NoRound /\ feedback = "idle"
     \/ difficulty # NULL /\ roundData # NoRound /\ feedback = "correct"
  /\ difficulty = NULL => roundData = NoRound
  /\ feedback = "correct" => (difficulty # NULL /\ roundData # NoRound)

====
